---- MODULE Spec2Model ----
(***************************************************************************)
(* A model of the URL shortener in src/app.py: the URL normalizer, the     *)
(* code generator, the SQLite-backed store (table urls), the shortening    *)
(* service insert_short_url, the resolver lookup_original_url and the WSGI *)
(* handler app.                                                            *)
(*                                                                         *)
(* Python strings are modelled as sequences of one-character strings, so   *)
(* that trimming, parsing and prefixing are computed, not assumed.         *)
(***************************************************************************)
EXTENDS Integers, Sequences, FiniteSets, TLC

(***************************************************************************)
(* Bounds of the model.                                                    *)
(***************************************************************************)
\* number of calls and requests started in one behaviour
MaxCalls == 4
\* number of tokens a raw input of the normalizer is built from
MaxTokens == 4

(***************************************************************************)
(* Program constants.                                                      *)
(***************************************************************************)
CODE_LENGTH == 6
MAX_GENERATION_ATTEMPTS == 20

(***************************************************************************)
(* Strings.                                                                *)
(***************************************************************************)
ascii_lowercase ==
  << "a","b","c","d","e","f","g","h","i","j","k","l","m",
     "n","o","p","q","r","s","t","u","v","w","x","y","z" >>
ascii_uppercase ==
  << "A","B","C","D","E","F","G","H","I","J","K","L","M",
     "N","O","P","Q","R","S","T","U","V","W","X","Y","Z" >>
digits == << "0","1","2","3","4","5","6","7","8","9" >>
ascii_letters == ascii_lowercase \o ascii_uppercase

Range(s) == { s[i] : i \in 1..Len(s) }

\* c in s, for a character c
HasChar(s, c) == \E i \in 1..Len(s) : s[i] = c

\* s[i:] with a 0-based Python index i >= 0
From(s, i) == IF i >= Len(s) THEN << >> ELSE SubSeq(s, i + 1, Len(s))

\* s[:i] with a 0-based Python index i >= 0
Upto(s, i) == IF i <= 0 THEN << >> ELSE SubSeq(s, 1, IF i > Len(s) THEN Len(s) ELSE i)

\* s.find(c, start): the 0-based index of the first c at or after start, or -1
Find(s, c, start) ==
  IF \E i \in (start + 1)..Len(s) : s[i] = c
    THEN (CHOOSE i \in (start + 1)..Len(s) :
            s[i] = c /\ \A j \in (start + 1)..(i - 1) : s[j] # c) - 1
    ELSE -1

\* s with every character of the set cs removed (str.replace(b, "") for b in cs)
RECURSIVE Remove(_, _)
Remove(s, cs) ==
  IF s = << >> THEN << >>
  ELSE IF Head(s) \in cs THEN Remove(Tail(s), cs)
  ELSE << Head(s) >> \o Remove(Tail(s), cs)

\* s.lstrip(cs)
RECURSIVE LStrip(_, _)
LStrip(s, cs) ==
  IF s # << >> /\ Head(s) \in cs THEN LStrip(Tail(s), cs) ELSE s

\* s.rstrip(cs)
RECURSIVE RStrip(_, _)
RStrip(s, cs) ==
  IF s # << >> /\ s[Len(s)] \in cs THEN RStrip(SubSeq(s, 1, Len(s) - 1), cs) ELSE s

\* c.lower() for one character
LowerChar(c) ==
  IF \E i \in 1..26 : ascii_uppercase[i] = c
    THEN ascii_lowercase[CHOOSE i \in 1..26 : ascii_uppercase[i] = c]
    ELSE c

\* c.upper() for one character
UpperChar(c) ==
  IF \E i \in 1..26 : ascii_lowercase[i] = c
    THEN ascii_uppercase[CHOOSE i \in 1..26 : ascii_lowercase[i] = c]
    ELSE c

\* s.upper()
Upper(s) == [ i \in 1..Len(s) |-> UpperChar(s[i]) ]

\* s.lower()
Lower(s) == [ i \in 1..Len(s) |-> LowerChar(s[i]) ]

\* the whitespace str.strip() removes, among the characters of the model
Whitespace == { " ", "\t", "\n" }

\* str.strip()
Strip(s) == RStrip(LStrip(s, Whitespace), Whitespace)

(***************************************************************************)
(* urllib.parse.urlparse, as far as normalize_url reads its result: the    *)
(* scheme and the network location, or the ValueError of an unbalanced     *)
(* bracket in the network location.                                        *)
(***************************************************************************)
\* _WHATWG_C0_CONTROL_OR_SPACE, among the characters of the model
C0_CONTROL_OR_SPACE == { " ", "\t", "\n" }
\* _UNSAFE_URL_BYTES_TO_REMOVE, among the characters of the model
UNSAFE_URL_BYTES_TO_REMOVE == { "\t", "\n" }
scheme_chars == Range(ascii_letters) \cup Range(digits) \cup { "+", "-", "." }

\* the end of the network location: the first of "/", "?", "#" at or after
\* start, or the end of the string
NetlocEnd(url, start) ==
  LET ds == { Find(url, c, start) : c \in { "/", "?", "#" } } \ { -1 }
  IN  IF ds = {} THEN Len(url) ELSE CHOOSE d \in ds : \A e \in ds : d <= e

\* the position of the k-th c in s; 0 for k = 0, Len(s) + 1 when there is none
Separator(s, c, k) ==
  LET at == { i \in 1..Len(s) : s[i] = c }
  IN  IF k = 0 THEN 0
      ELSE IF k > Cardinality(at) THEN Len(s) + 1
      ELSE CHOOSE i \in at : Cardinality({ j \in at : j < i }) = k - 1

\* s.split(c)
Split(s, c) ==
  [ k \in 1..(Cardinality({ i \in 1..Len(s) : s[i] = c }) + 1) |->
      SubSeq(s, Separator(s, c, k - 1) + 1, Separator(s, c, k) - 1) ]

\* int(s, 10) of a string of decimal digits
RECURSIVE DecimalValue(_)
DecimalValue(s) ==
  IF s = << >> THEN 0
  ELSE 10 * DecimalValue(SubSeq(s, 1, Len(s) - 1)) + Find(digits, s[Len(s)], 0)

\* ipaddress._BaseV4._parse_octet does not raise
parse_octet(octet_str) ==
  /\ octet_str # << >>
  /\ \A i \in 1..Len(octet_str) : octet_str[i] \in Range(digits)
  /\ Len(octet_str) <= 3
  /\ octet_str = << "0" >> \/ octet_str[1] # "0"
  /\ DecimalValue(octet_str) <= 255

\* ipaddress.IPv4Address(address) does not raise
IPv4Address(address) ==
  /\ ~HasChar(address, "/")
  /\ address # << >>
  /\ LET octets == Split(address, ".")
     IN  Len(octets) = 4 /\ \A i \in 1..4 : parse_octet(octets[i])

HEX_DIGITS == Range(digits) \cup { "a", "b", "c", "d", "e", "f", "A", "B", "C", "D", "E", "F" }

\* ipaddress._BaseV6._parse_hextet does not raise
parse_hextet(hextet_str) ==
  /\ \A i \in 1..Len(hextet_str) : hextet_str[i] \in HEX_DIGITS
  /\ Len(hextet_str) <= 4
  /\ hextet_str # << >>

\* the hextets before and after the "::" at parts[skip] parse: parts_hi of
\* them before it and parts_lo after it, at most 7 together
parse_around(parts, parts_hi, parts_lo) ==
  /\ 8 - (parts_hi + parts_lo) >= 1
  /\ \A i \in 1..parts_hi : parse_hextet(parts[i])
  /\ \A i \in (Len(parts) - parts_lo + 1)..Len(parts) : parse_hextet(parts[i])

\* an empty first or last part is only permitted next to the "::"
parse_skipped(parts, skip) ==
  /\ parts[1] = << >> => skip = 2
  /\ parts[Len(parts)] = << >> => skip = Len(parts) - 1
  /\ parse_around(parts,
                  IF parts[1] = << >> THEN skip - 2 ELSE skip - 1,
                  IF parts[Len(parts)] = << >> THEN Len(parts) - skip - 1
                  ELSE Len(parts) - skip)

\* at most 9 parts; with one "::" (an empty part that is not the first or
\* the last) the parts around it, without one exactly 8 hextets
parse_parts(parts, skips) ==
  /\ Len(parts) <= 9
  /\ Cardinality(skips) <= 1
  /\ IF skips # {}
       THEN parse_skipped(parts, CHOOSE i \in skips : TRUE)
       ELSE Len(parts) = 8 /\ \A i \in 1..Len(parts) : parse_hextet(parts[i])

\* the parts once an IPv4 suffix is replaced by its two hextets
with_suffix(parts) ==
  IF HasChar(parts[Len(parts)], ".")
    THEN SubSeq(parts, 1, Len(parts) - 1) \o << << "0" >>, << "0" >> >>
    ELSE parts

split_parts(parts) ==
  /\ Len(parts) >= 3
  /\ HasChar(parts[Len(parts)], ".") => IPv4Address(parts[Len(parts)])
  /\ parse_parts(with_suffix(parts),
                 { i \in 2..(Len(with_suffix(parts)) - 1) : with_suffix(parts)[i] = << >> })

\* ipaddress._BaseV6._ip_int_from_string does not raise
ip_int_from_string(ip_str) == ip_str # << >> /\ split_parts(Split(ip_str, ":"))

\* ipaddress.IPv6Address(address) does not raise: the scope id after "%" is
\* split off and must not be empty or hold another "%"
IPv6Address(address) ==
  /\ ~HasChar(address, "/")
  /\ IF HasChar(address, "%")
       THEN /\ From(address, Find(address, "%", 0) + 1) # << >>
            /\ ~HasChar(From(address, Find(address, "%", 0) + 1), "%")
            /\ ip_int_from_string(Upto(address, Find(address, "%", 0)))
       ELSE ip_int_from_string(address)

\* urllib.parse._check_bracketed_host raises ValueError: the host is not an
\* IPvFuture address (v<hex digits>.<more>) and not an IPv6 address
check_bracketed_host_raises(hostname) ==
  IF hostname # << >> /\ hostname[1] = "v"
    THEN ~ \E k \in 1..(Len(hostname) - 3) :
             /\ \A i \in 2..(k + 1) : hostname[i] \in HEX_DIGITS
             /\ hostname[k + 2] = "."
    ELSE IPv4Address(hostname) \/ ~IPv6Address(hostname)

\* netloc.partition("[")[2].partition("]")[0]
bracketed_host(netloc) ==
  LET rest == From(netloc, Find(netloc, "[", 0) + 1)
      j    == Find(rest, "]", 0)
  IN  IF j = -1 THEN rest ELSE Upto(rest, j)

\* urlsplit raises ValueError for the network location: one bracket without
\* the other, or brackets around something that is no IP address.  The
\* check of _checknetloc passes every ASCII location, and the strings of the
\* model are ASCII
netloc_raises(netloc) ==
  \/ HasChar(netloc, "[") # HasChar(netloc, "]")
  \/ /\ HasChar(netloc, "[") /\ HasChar(netloc, "]")
     /\ check_bracketed_host_raises(bracketed_host(netloc))

urlparse(raw) ==
  LET url0 == Remove(LStrip(raw, C0_CONTROL_OR_SPACE), UNSAFE_URL_BYTES_TO_REMOVE)
      i    == Find(url0, ":", 0)
      hasScheme ==
        /\ i > 0
        /\ url0[1] \in Range(ascii_letters)
        /\ \A k \in 1..i : url0[k] \in scheme_chars
      scheme == IF hasScheme THEN Lower(Upto(url0, i)) ELSE << >>
      url1   == IF hasScheme THEN From(url0, i + 1) ELSE url0
      hasNetloc == Upto(url1, 2) = << "/", "/" >>
      netloc == IF hasNetloc THEN SubSeq(url1, 3, NetlocEnd(url1, 2)) ELSE << >>
  IN  [ scheme |-> scheme,
        netloc |-> netloc,
        raises |-> netloc_raises(netloc) ]

(***************************************************************************)
(* normalize_url.  The result is the cleaned URL, the empty string for a   *)
(* rejected input, or ValueError when urlparse raises.                     *)
(***************************************************************************)
ValueError == << "ValueError" >>
https_prefix == << "h", "t", "t", "p", "s", ":", "/", "/" >>
http == << "h", "t", "t", "p" >>
https == << "h", "t", "t", "p", "s" >>

\* mutant of normalize_url: https:// is put before the raw input, not the
\* trimmed one
normalize_url_raw(raw) ==
  LET cleaned0 == Strip(raw)
      parsed0  == urlparse(cleaned0)
      prefixed == parsed0.scheme = << >>
      cleaned  == IF prefixed THEN https_prefix \o cleaned0 ELSE cleaned0
      parsed   == IF prefixed THEN urlparse(cleaned) ELSE parsed0
  IN  IF cleaned0 = << >> THEN << >>
      ELSE IF parsed0.raises \/ parsed.raises THEN ValueError
      ELSE IF parsed.scheme \notin { http, https } THEN << >>
      ELSE IF parsed.netloc = << >> \/ HasChar(cleaned, " ") THEN << >>
      ELSE IF prefixed THEN https_prefix \o raw
      ELSE cleaned

normalize_url(raw) ==
  LET cleaned0 == Strip(raw)
      parsed0  == urlparse(cleaned0)
      prefixed == parsed0.scheme = << >>
      cleaned  == IF prefixed THEN https_prefix \o cleaned0 ELSE cleaned0
      parsed   == IF prefixed THEN urlparse(cleaned) ELSE parsed0
  IN  IF cleaned0 = << >> THEN << >>
      ELSE IF parsed0.raises \/ parsed.raises THEN ValueError
      ELSE IF parsed.scheme \notin { http, https } THEN << >>
      ELSE IF parsed.netloc = << >> \/ HasChar(cleaned, " ") THEN << >>
      ELSE cleaned

(***************************************************************************)
(* generate_code.  random.choice is the model's input: picks is the        *)
(* sequence of CODE_LENGTH indices (1-based) it draws from the alphabet.   *)
(***************************************************************************)
alphabet == ascii_letters \o digits

\* mutant of generate_code: one character fewer
generate_code_short(picks) == [ i \in 1..(CODE_LENGTH - 1) |-> alphabet[picks[i]] ]

\* "".join(random.choice(alphabet) for _ in range(CODE_LENGTH))
generate_code(picks) == [ i \in 1..CODE_LENGTH |-> alphabet[picks[i]] ]

\* the draws of the random source the model follows: index 1 ("a") for every
\* character but the last, which is one of LastPicks ("a" or "A"), so that
\* the codes drawn are "aaaaaa" and "aaaaaA"
LastPicks == { 1, 27 }
RandomPicks ==
  { [ i \in 1..CODE_LENGTH |-> IF i = CODE_LENGTH THEN k ELSE 1 ] : k \in LastPicks }

GenCodes == { generate_code(picks) : picks \in RandomPicks }

\* draws for the generator's own specification: each run of six consecutive
\* alphabet positions, or six times the same one, starting at the first and
\* last of the lower-case letters, the upper-case letters and the digits
ClassEnds == { 1, Len(ascii_lowercase), Len(ascii_lowercase) + 1, Len(ascii_letters),
               Len(ascii_letters) + 1, Len(alphabet) }
BoundaryPicks ==
  { [ i \in 1..CODE_LENGTH |-> ((a - 1 + b * (i - 1)) % Len(alphabet)) + 1 ] :
      a \in ClassEnds, b \in { 0, 1 } }

(***************************************************************************)
(* The table urls (init_db) and the statements the program runs on it.     *)
(* A table is the set of its rows.                                          *)
(***************************************************************************)
None == << "None" >>
IntegrityError == << "IntegrityError" >>
OperationalError == << "OperationalError" >>
RuntimeError == << "RuntimeError" >>

CodesOf(table) == { r.code : r \in table }

\* id INTEGER PRIMARY KEY AUTOINCREMENT: one more than the largest id used;
\* no row is ever deleted, so that is the largest id in the table
NextId(table) ==
  IF table = {} THEN 1
  ELSE (CHOOSE m \in { r.id : r \in table } : \A r \in table : r.id <= m) + 1

\* the row of the least id among rows (the order the statements return rows in)
FirstRow(rows) == CHOOSE r \in rows : \A q \in rows : r.id <= q.id

\* mutant of UniqueCode: the column code without its UNIQUE constraint
UniqueCodeOff(table, code) == TRUE

\* code TEXT UNIQUE NOT NULL: the constraint a row must pass to be inserted
UniqueCode(table, code) == code \notin CodesOf(table)

\* original_url TEXT NOT NULL: Python's None is bound as NULL
NotNull(value) == value # None

\* mutant of InsertRow: INSERT OR REPLACE, the new row takes the place of the
\* row that has its code
InsertRowReplace(table, code, original_url, created_at) ==
  { r \in table : r.code # code }
    \cup { [ id |-> NextId(table), code |-> code, original_url |-> original_url,
            created_at |-> created_at, clicks |-> 0 ] }

\* INSERT INTO urls (code, original_url, created_at) VALUES (?, ?, ?):
\* the table after the statement; unchanged when a constraint fails
\* (sqlite3.IntegrityError, whichever constraint it is)
InsertRow(table, code, original_url, created_at) ==
  IF UniqueCode(table, code) /\ NotNull(original_url)
    THEN table \cup { [ id |-> NextId(table), code |-> code,
                        original_url |-> original_url,
                        created_at |-> created_at, clicks |-> 0 ] }
    ELSE table

\* mutant of SelectCode: the existence check finds nothing
SelectCodeNever(table, original_url) == None

\* SELECT code FROM urls WHERE original_url = ?  (fetchone)
SelectCode(table, original_url) ==
  LET rows == { r \in table : r.original_url = original_url }
  IN  IF rows = {} THEN None ELSE FirstRow(rows).code

\* mutant of SelectOriginalUrl: the WHERE clause left out
SelectOriginalUrlAny(table, code) ==
  IF table = {} THEN None ELSE FirstRow(table).original_url

\* mutant of SelectOriginalUrl: codes compared without regard to case
SelectOriginalUrlNoCase(table, code) ==
  LET rows == { r \in table : Lower(r.code) = Lower(code) }
  IN  IF rows = {} THEN None ELSE FirstRow(rows).original_url

\* SELECT original_url FROM urls WHERE code = ?  (fetchone)
SelectOriginalUrl(table, code) ==
  LET rows == { r \in table : r.code = code }
  IN  IF rows = {} THEN None ELSE FirstRow(rows).original_url

\* mutant of UpdateClicks: the WHERE clause left out
UpdateClicksAll(table, code) == { [ r EXCEPT !.clicks = @ + 1 ] : r \in table }

\* mutant of UpdateClicks: the counter goes the other way
UpdateClicksDown(table, code) ==
  { IF r.code = code THEN [ r EXCEPT !.clicks = @ - 1 ] ELSE r : r \in table }

\* UPDATE urls SET clicks = clicks + 1 WHERE code = ?
UpdateClicks(table, code) ==
  { IF r.code = code THEN [ r EXCEPT !.clicks = @ + 1 ] ELSE r : r \in table }

\* SELECT COUNT(*) AS total FROM urls
count_urls(table) == Cardinality(table)

\* mutant of LoopOver: one round fewer
LoopOverEarly(n) == n >= MAX_GENERATION_ATTEMPTS - 1

\* for _ in range(MAX_GENERATION_ATTEMPTS): the loop is over after n rounds
LoopOver(n) == n >= MAX_GENERATION_ATTEMPTS

(***************************************************************************)
(* Inputs.                                                                 *)
(***************************************************************************)
Tokens ==
  { http, https, << "f", "t", "p" >>, << "H", "T", "T", "P" >>,
    << ":", "/", "/" >>, << ":" >>, << "/" >>, << "a" >>,
    << " " >>, << "\t" >>, << "\n" >>, << "[" >>, << "]" >> }

RECURSIVE Concat(_)
Concat(ts) == IF ts = << >> THEN << >> ELSE Head(ts) \o Concat(Tail(ts))

\* the raw inputs of the normalizer on its own
RawInputs == { Concat(ts) : ts \in UNION { [ 1..n -> Tokens ] : n \in 0..MaxTokens } }

\* the concurrent callers of the core: threads or worker processes
Procs == { 1, 2 }

\* already-normalized URLs, the arguments of direct calls of insert_short_url
UrlA == https_prefix \o << "a" >>
UrlB == http \o << ":", "/", "/", "b" >>
DirectUrls == { UrlA, UrlB }

\* the forms of POST requests: no url field, or a url field with one of these
FormUrls ==
  { << "a" >>, << " " >> \o UrlB, << "f", "t", "p", ":", "/", "/", "a" >>,
    << " " >>, << "[" >> }
\* a parsed form is the set of its <<key, value>> pairs
Forms == { {} } \cup { { << "url", u >> } : u \in FormUrls }

\* codes looked up: those the generator can draw, and a proper prefix of them
LookupCodes == GenCodes \cup { << "a", "a", "a", "a", "a" >> }

PathStats == << "/", "s", "t", "a", "t", "s" >>
PathError == << "/", "u", "r", "l", "-", "e", "r", "r", "o", "r", ".", "p", "h", "p" >>
PathStyle ==
  << "/", "s", "t", "a", "t", "i", "c", "/", "s", "t", "y", "l", "e", ".", "c", "s", "s" >>
Paths ==
  { << "/" >>, PathStats, PathError, PathStyle, << "/", "a", "/", "b" >> }
    \cup { << "/" >> \o c : c \in LookupCodes }
    \cup { << "/", "/" >> \o c : c \in GenCodes }
GET == << "G", "E", "T" >>
POST == << "P", "O", "S", "T" >>
\* REQUEST_METHOD as the client sent it
Methods == { GET, POST, << "p", "o", "s", "t" >>, << "G", "e", "t" >> }

\* environ of the requests: HTTP_HOST and wsgi.url_scheme
HTTP_HOST ==
  << "l", "o", "c", "a", "l", "h", "o", "s", "t", ":", "5", "0", "0", "0" >>
url_scheme == http

(***************************************************************************)
(* State.                                                                  *)
(***************************************************************************)
VARIABLES
  urls,      \* the committed contents of table urls
  lock,      \* the connection holding SQLite's write (RESERVED) lock, or 0
  txn,       \* txn[p]: the table as p's open write transaction has changed it
  proc,      \* proc[p]: the call or request p is running, and its last result;
             \* conn is "open" once the call has made its sqlite3.connect
  clock,     \* the number of calls started: the time datetime.utcnow() reads
  returned,  \* history: the pairs <<url, code>> insert_short_url has returned
  hits,      \* history: hits[c], the lookups of code c that returned its URL
  nraw, nstage, nout, nout2   \* the normalizer on its own

svars == << urls, lock, txn, proc, clock, returned, hits >>
nvars == << nraw, nstage, nout, nout2 >>
vars  == << urls, lock, txn, proc, clock, returned, hits, nraw, nstage, nout, nout2 >>

Idle ==
  [ pc |-> "idle", via |-> "none", req |-> << >>, arg |-> << >>, attempts |-> 0,
    code |-> << >>,
    found |-> << >>, ret |-> << >>, status |-> 0, location |-> << >>, body |-> << >>,
    total |-> 0, conn |-> "none", now |-> 0 ]

\* the state after init_db on a new database file
StoreInit ==
  /\ urls = {}
  /\ lock = 0
  /\ txn = [ p \in Procs |-> {} ]
  /\ proc = [ p \in Procs |-> Idle ]
  /\ clock = 0
  /\ returned = {}
  /\ hits = [ c \in GenCodes |-> 0 ]

NormIdle ==
  /\ nraw = << >>
  /\ nstage = "off"
  /\ nout = << >>
  /\ nout2 = << >>

Init == StoreInit /\ NormIdle

(***************************************************************************)
(* Responses of app.                                                       *)
(***************************************************************************)
\* mutant of short_url: the scheme and the host left out
short_url_relative(code) == << "/" >> \o code

\* the page of a successful POST /: it shows <scheme>://<host>/<code>
short_url(code) == url_scheme \o << ":", "/", "/" >> \o HTTP_HOST \o << "/" >> \o code

Raised(ret) == ret \in { RuntimeError, OperationalError, ValueError }

\* mutant of ResponseStatus: an exception of the core is answered like a
\* rejected submission
ResponseStatusCaught(via, ret) ==
  IF via \in { "insert", "lookup" } THEN 0
  ELSE IF Raised(ret) THEN 302
  ELSE IF via = "post" THEN 200
  ELSE IF ret # None /\ ret # << >> THEN 302 ELSE 404

\* the status of the response to a request whose call of the core ended with
\* ret; 0 for a direct call, which has no response.  app catches no
\* exception: one raised in it leaves the WSGI callable, and the server of
\* __main__ (wsgiref) answers 500 Internal Server Error
ResponseStatus(via, ret) ==
  IF via \in { "insert", "lookup" } THEN 0
  ELSE IF Raised(ret) THEN 500
  ELSE IF via = "post" THEN 200
  ELSE IF ret # None /\ ret # << >> THEN 302 ELSE 404

\* what a finished call leaves in proc[p]: the value returned or the exception
\* raised, and for a request the response.  The with block has committed or
\* rolled back, but nothing closes the connection: conn stays as it is
Finished(q, ret) ==
  LET raised == Raised(ret)
      hit    == ret # None /\ ret # << >>
  IN  [ q EXCEPT
          !.pc = "done",
          !.code = << >>,
          !.found = << >>,
          !.ret = ret,
          !.status = ResponseStatus(q.via, ret),
          !.location = IF q.via = "redirect" /\ ~raised /\ hit THEN ret ELSE << >>,
          !.body = IF q.via = "post" /\ ~raised THEN short_url(ret) ELSE << >> ]

Ready(p) == proc[p].pc \in { "idle", "done" } /\ clock < MaxCalls

(***************************************************************************)
(* Direct calls of the core, as the tests make them.                       *)
(***************************************************************************)
CallInsert(p, u) ==
  /\ Ready(p)
  /\ proc' = [ proc EXCEPT ![p] = [ Idle EXCEPT !.pc = "ins_select", !.via = "insert", !.arg = u, !.conn = "open" ] ]
  /\ clock' = clock + 1
  /\ UNCHANGED << urls, lock, txn, returned, hits, nvars >>

CallLookup(p, c) ==
  /\ Ready(p)
  /\ proc' = [ proc EXCEPT ![p] = [ Idle EXCEPT !.pc = "lk_select", !.via = "lookup", !.arg = c, !.conn = "open" ] ]
  /\ clock' = clock + 1
  /\ UNCHANGED << urls, lock, txn, returned, hits, nvars >>

(***************************************************************************)
(* app: a request up to its first call of the core.                        *)
(***************************************************************************)
\* form.get("url", "")
FormGet(form) ==
  IF \E kv \in form : kv[1] = "url"
    THEN (CHOOSE kv \in form : kv[1] = "url")[2]
    ELSE << >>

\* code = path.lstrip("/")
PathCode(path) == LStrip(path, { "/" })

\* mutant of Rejected: the check left out
RejectedNever(original) == FALSE

\* if not original: the submission is rejected
Rejected(original) == original = << >>

\* if code and "/" not in code: the path is handed to the resolver
IsCodePath(code) == code # << >> /\ ~HasChar(code, "/")

\* a response app makes without calling the core
Respond(req, status, location) ==
  [ Idle EXCEPT !.pc = "done", !.via = "page", !.req = req, !.status = status,
                !.location = location ]

\* app up to its first call of the core: proc[p] after the step.  A page of
\* via "post" goes on in insert_short_url, one of via "redirect" in
\* lookup_original_url
AppStart(request_method, path, form, table) ==
  LET req      == << request_method, path, form >>
      method   == Upper(request_method)
      original == normalize_url(FormGet(form))
      code     == PathCode(path)
  IN  IF path = PathStyle THEN Respond(req, 200, << >>)
      ELSE IF path = << "/" >> /\ method = GET THEN Respond(req, 200, << >>)
      ELSE IF path = << "/" >> /\ method = POST THEN
        IF original = ValueError
          THEN Finished([ Idle EXCEPT !.via = "post", !.req = req ], ValueError)
        ELSE IF Rejected(original) THEN Respond(req, 302, PathError)
        ELSE [ Idle EXCEPT !.pc = "ins_select", !.via = "post", !.req = req, !.arg = original,
                           !.conn = "open" ]
      ELSE IF path = PathError THEN Respond(req, 400, << >>)
      ELSE IF path = PathStats
        THEN [ Respond(req, 200, << >>) EXCEPT !.total = count_urls(table), !.conn = "open" ]
      ELSE IF IsCodePath(code)
        THEN [ Idle EXCEPT !.pc = "lk_select", !.via = "redirect", !.req = req, !.arg = code,
                           !.conn = "open" ]
      ELSE Respond(req, 404, << >>)

App(p, method, path, form) ==
  /\ Ready(p)
  /\ proc' = [ proc EXCEPT ![p] = AppStart(method, path, form, urls) ]
  /\ clock' = clock + 1
  /\ UNCHANGED << urls, lock, txn, returned, hits, nvars >>

(***************************************************************************)
(* insert_short_url.  The SELECT runs outside a transaction; the first     *)
(* INSERT opens one (sqlite3's implicit BEGIN) and takes the write lock,   *)
(* which the connection keeps until the with block commits or rolls back.  *)
(***************************************************************************)
\* existing = SELECT code ... WHERE original_url = ?; if existing: return
InsSelect(p) ==
  LET q == proc[p]
      existing == SelectCode(urls, q.arg)
  IN  /\ q.pc = "ins_select"
      /\ IF existing # None
           THEN /\ proc' = [ proc EXCEPT ![p] = Finished(q, existing) ]
                /\ returned' = returned \cup { << q.arg, existing >> }
           ELSE /\ proc' = [ proc EXCEPT ![p].pc = "ins_loop" ]
                /\ UNCHANGED returned
      /\ UNCHANGED << urls, lock, txn, clock, hits, nvars >>

\* a round of the loop up to its statement: code = generate_code(), and the
\* argument tuple of db.execute, for which datetime.utcnow() is read.  The
\* statement itself runs later: other callers can come in between, and it
\* waits for the write lock
InsDraw(p, picks) ==
  LET q == proc[p]
  IN  /\ q.pc = "ins_loop"
      /\ ~LoopOver(q.attempts)
      /\ proc' = [ proc EXCEPT ![p].code = generate_code(picks),
                               ![p].now = clock,
                               ![p].pc = "ins_insert" ]
      /\ UNCHANGED << urls, lock, txn, clock, returned, hits, nvars >>

\* the INSERT of the round, with the time read before it: return code, or
\* continue on IntegrityError, which ends the use of the round's code
InsAttempt(p) ==
  LET q     == proc[p]
      table == IF lock = p THEN txn[p] ELSE urls
      after == InsertRow(table, q.code, q.arg, q.now)
  IN  /\ q.pc = "ins_insert"
      /\ lock \in { 0, p }
      /\ lock' = p
      /\ txn' = [ txn EXCEPT ![p] = after ]
      /\ proc' = [ proc EXCEPT ![p].attempts = @ + 1,
                               ![p].now = 0,
                               ![p].code = IF after # table THEN @ ELSE << >>,
                               ![p].pc = IF after # table THEN "ins_commit" ELSE "ins_loop" ]
      /\ UNCHANGED << urls, clock, returned, hits, nvars >>

\* mutant of InsBusy: the loop catches the lock failure like a collision and
\* goes on with its next round
InsBusyRetried(p) ==
  LET q == proc[p]
  IN  /\ q.pc = "ins_insert"
      /\ lock \notin { 0, p }
      /\ proc' = [ proc EXCEPT ![p].attempts = @ + 1,
                               ![p].now = 0,
                               ![p].code = << >>,
                               ![p].pc = "ins_loop" ]
      /\ UNCHANGED << urls, lock, txn, clock, returned, hits, nvars >>

\* the INSERT finds the write lock held by another connection until the busy
\* timeout: sqlite3.OperationalError, which the loop does not catch; the with
\* block rolls back
InsBusy(p) ==
  LET q == proc[p]
  IN  /\ q.pc = "ins_insert"
      /\ lock \notin { 0, p }
      /\ proc' = [ proc EXCEPT ![p] =
                     Finished([ q EXCEPT !.attempts = @ + 1, !.now = 0 ], OperationalError) ]
      /\ UNCHANGED << urls, lock, txn, clock, returned, hits, nvars >>

\* return code: the with block commits the row
InsCommit(p) ==
  LET q == proc[p]
  IN  /\ q.pc = "ins_commit"
      /\ urls' = txn[p]
      /\ lock' = 0
      /\ txn' = [ txn EXCEPT ![p] = {} ]
      /\ proc' = [ proc EXCEPT ![p] = Finished(q, q.code) ]
      /\ returned' = returned \cup { << q.arg, q.code >> }
      /\ UNCHANGED << clock, hits, nvars >>

\* the loop is over: the with block commits what the transaction holds, then
\* raise RuntimeError
InsExhausted(p) ==
  LET q == proc[p]
  IN  /\ q.pc = "ins_loop"
      /\ LoopOver(q.attempts)
      /\ urls' = IF lock = p THEN txn[p] ELSE urls
      /\ lock' = IF lock = p THEN 0 ELSE lock
      /\ txn' = [ txn EXCEPT ![p] = {} ]
      /\ proc' = [ proc EXCEPT ![p] = Finished(q, RuntimeError) ]
      /\ UNCHANGED << clock, returned, hits, nvars >>

(***************************************************************************)
(* lookup_original_url.                                                    *)
(***************************************************************************)
\* row = SELECT original_url ... WHERE code = ?; return None when there is none
LkSelect(p) ==
  LET q   == proc[p]
      row == SelectOriginalUrl(urls, q.arg)
  IN  /\ q.pc = "lk_select"
      /\ proc' = [ proc EXCEPT ![p] =
                     IF row = None THEN Finished(q, None)
                     ELSE [ q EXCEPT !.pc = "lk_update", !.found = row ] ]
      /\ UNCHANGED << urls, lock, txn, clock, returned, hits, nvars >>

\* UPDATE urls SET clicks = clicks + 1 WHERE code = ?, in a new transaction
LkUpdate(p) ==
  LET q == proc[p]
  IN  /\ q.pc = "lk_update"
      /\ lock = 0
      /\ lock' = p
      /\ txn' = [ txn EXCEPT ![p] = UpdateClicks(urls, q.arg) ]
      /\ proc' = [ proc EXCEPT ![p].pc = "lk_commit" ]
      /\ UNCHANGED << urls, clock, returned, hits, nvars >>

\* the UPDATE finds the write lock held until the busy timeout
LkBusy(p) ==
  LET q == proc[p]
  IN  /\ q.pc = "lk_update"
      /\ lock # 0
      /\ proc' = [ proc EXCEPT ![p] = Finished(q, OperationalError) ]
      /\ UNCHANGED << urls, lock, txn, clock, returned, hits, nvars >>

\* return row["original_url"]: the with block commits the increment
LkCommit(p) ==
  LET q == proc[p]
  IN  /\ q.pc = "lk_commit"
      /\ urls' = txn[p]
      /\ lock' = 0
      /\ txn' = [ txn EXCEPT ![p] = {} ]
      /\ proc' = [ proc EXCEPT ![p] = Finished(q, q.found) ]
      /\ hits' = [ hits EXCEPT ![q.arg] = @ + 1 ]
      /\ UNCHANGED << clock, returned, nvars >>

(***************************************************************************)
(* The normalizer on its own: a raw input built from at most MaxTokens     *)
(* tokens is normalized, and an accepted result is normalized again.       *)
(***************************************************************************)
NormInit ==
  /\ nraw \in RawInputs
  /\ nstage = "raw"
  /\ nout = << >>
  /\ nout2 = << >>

\* original = normalize_url(raw)
Normalize ==
  /\ nstage = "raw"
  /\ nout' = normalize_url(nraw)
  /\ nstage' = "once"
  /\ UNCHANGED << nraw, nout2 >>
  /\ UNCHANGED svars

\* normalize_url(original), for an accepted original
Renormalize ==
  /\ nstage = "once"
  /\ nout \notin { << >>, ValueError }
  /\ nout2' = normalize_url(nout)
  /\ nstage' = "twice"
  /\ UNCHANGED << nraw, nout >>
  /\ UNCHANGED svars

(***************************************************************************)
(* Specifications.                                                         *)
(***************************************************************************)
\* concurrent callers of the core (threads or worker processes sharing the
\* database file); the codes looked up are those the generator can draw
Next ==
  \E p \in Procs :
    \/ \E u \in DirectUrls : CallInsert(p, u)
    \/ \E c \in GenCodes : CallLookup(p, c)
    \/ InsSelect(p)
    \/ \E picks \in RandomPicks : InsDraw(p, picks)
    \/ InsAttempt(p)
    \/ InsBusy(p)
    \/ InsCommit(p)
    \/ InsExhausted(p)
    \/ LkSelect(p)
    \/ LkUpdate(p)
    \/ LkBusy(p)
    \/ LkCommit(p)

Spec == Init /\ [][Next]_vars

\* the server of __main__ (wsgiref's make_server) and the tests: one request
\* or call at a time
SeqNext ==
  \E p \in { 1 } :
    \/ \E u \in DirectUrls : CallInsert(p, u)
    \/ \E c \in LookupCodes : CallLookup(p, c)
    \/ \E method \in Methods, path \in Paths, form \in Forms : App(p, method, path, form)
    \/ InsSelect(p)
    \/ \E picks \in RandomPicks : InsDraw(p, picks)
    \/ InsAttempt(p)
    \/ InsCommit(p)
    \/ InsExhausted(p)
    \/ LkSelect(p)
    \/ LkUpdate(p)
    \/ LkCommit(p)

SpecSeq == Init /\ [][SeqNext]_vars

\* the normalizer on its own
InitNorm == StoreInit /\ NormInit

NormNext == Normalize \/ Renormalize

SpecNorm == InitNorm /\ [][NormNext]_vars

\* the generator under draws from all of the alphabet: direct calls of
\* insert_short_url, one at a time
GenNext ==
  \E p \in { 1 } :
    \/ \E u \in DirectUrls : CallInsert(p, u)
    \/ InsSelect(p)
    \/ \E picks \in BoundaryPicks : InsDraw(p, picks)
    \/ InsAttempt(p)
    \/ InsCommit(p)
    \/ InsExhausted(p)

SpecGen == Init /\ [][GenNext]_vars

(***************************************************************************)
(* Properties.                                                             *)
(***************************************************************************)
RowsOf(table, original_url) == { r \in table : r.original_url = original_url }

\* C1 (SpecSeq): dedup.  When insert_short_url is called again, after an
\* earlier call, with the same original_url, it returns the same code and
\* inserts no row: all codes returned for one URL are equal, and the store
\* holds exactly one record of that URL, with that code.
C1_Dedup ==
  \A x \in returned :
    /\ \A y \in returned : x[1] = y[1] => x[2] = y[2]
    /\ Cardinality(RowsOf(urls, x[1])) = 1
    /\ \A r \in RowsOf(urls, x[1]) : r.code = x[2]

\* a second call with a stored URL has returned the stored code without a
\* round of the loop
C1_Witness ==
  /\ proc[1].pc = "done"
  /\ proc[1].via \in { "insert", "post" }
  /\ proc[1].attempts = 0
  /\ << proc[1].arg, proc[1].ret >> \in returned
  /\ Cardinality(urls) = 1

\* C2 (SpecSeq): round trip.  For every URL u and code c insert_short_url(u)
\* has returned, lookup_original_url(c) returns u: the SELECT of the lookup
\* yields u in every state, every finished lookup of c returned u, and GET /c
\* was answered 302 with Location u.
C2_RoundTrip ==
  \A x \in returned :
    /\ SelectOriginalUrl(urls, x[2]) = x[1]
    /\ \A p \in Procs :
         ( /\ proc[p].pc = "done"
           /\ proc[p].via \in { "lookup", "redirect" }
           /\ proc[p].arg = x[2] )
         => /\ proc[p].ret = x[1]
            /\ proc[p].via = "redirect" =>
                 proc[p].status = 302 /\ proc[p].location = x[1]

\* GET /c for the second of two stored codes was answered 302 to its URL
C2_Witness ==
  /\ Cardinality(urls) = 2
  /\ proc[1].pc = "done"
  /\ proc[1].via = "redirect"
  /\ proc[1].status = 302
  /\ << proc[1].location, proc[1].arg >> \in returned
  /\ \E r \in urls : r.id = 2 /\ r.code = proc[1].arg

\* C3 (Spec): click accounting.  The clicks of every record equal the number
\* of lookups of its code that returned its URL, under every interleaving of
\* concurrent lookups; lookups of other codes do not change it.
C3_ClickAccounting ==
  \A r \in urls : r.clicks = hits[r.code]

\* two resolutions of one code are in flight at once, after a first one has
\* been counted: one holds the write lock, the other waits for it
C3_Witness ==
  \E p \in Procs, q \in Procs, r \in urls :
    /\ p # q
    /\ r.clicks = 1
    /\ proc[p].pc = "lk_commit" /\ proc[p].arg = r.code
    /\ proc[q].pc = "lk_update" /\ proc[q].arg = r.code

\* the table as p's next statement sees it
Visible(p) == IF lock = p THEN txn[p] ELSE urls

NoCodeTwice(table) == \A r1 \in table, r2 \in table : r1.code = r2.code => r1 = r2

C4_Unique == NoCodeTwice(urls) /\ \A p \in Procs : NoCodeTwice(txn[p])

\* an INSERT of p's loop whose candidate is a code of the table: it fails and
\* leaves the table and the committed rows as they are
C4_Step ==
  \A p \in Procs :
    ( /\ proc[p].pc = "ins_insert"
      /\ proc'[p].pc # "done"
      /\ proc'[p].attempts = proc[p].attempts + 1
      /\ proc[p].code \in CodesOf(Visible(p)) )
    => /\ proc'[p].pc = "ins_loop"
       /\ txn'[p] = Visible(p)
       /\ urls' = urls

\* C4 (Spec): code uniqueness.  Under every interleaving of concurrent
\* insert_short_url calls no two records have the same code, and an INSERT of
\* a stored code fails and adds no row.
C4_CodeUnique == []C4_Unique /\ [][C4_Step]_vars

\* two concurrent calls drew the same candidate: one has stored it, the other
\* failed on it and is in its next round
C4_Witness ==
  \E p \in Procs, q \in Procs :
    /\ p # q
    /\ proc[p].pc = "done" /\ proc[p].via = "insert" /\ proc[p].attempts = 1
    /\ proc[p].ret \in CodesOf(urls)
    /\ proc[q].pc = "ins_loop" /\ proc[q].attempts = 1
    /\ lock = q /\ txn[q] = urls
    /\ CodesOf(urls) = { proc[p].ret }
    /\ proc[q].arg # proc[p].arg

\* C5 (Spec): original_url uniqueness.  In every reachable state, also when
\* two insert_short_url calls for one new URL interleave between the
\* existence check and the INSERT, no two records share an original_url.
C5_UrlUnique ==
  \A r1 \in urls, r2 \in urls : r1.original_url = r2.original_url => r1 = r2

\* the SELECT of a lookup of a code that equals no stored code
C6_Step ==
  \A p \in Procs :
    ( /\ proc[p].pc = "lk_select"
      /\ proc[p].arg \notin CodesOf(urls)
      /\ proc'[p] # proc[p] )
    => /\ proc'[p].pc = "done"
       /\ proc'[p].ret = None
       /\ urls' = urls
       /\ txn' = txn
       /\ lock' = lock
       /\ hits' = hits
       /\ count_urls(urls') = count_urls(urls)
       /\ proc[p].via = "redirect" => proc'[p].status = 404

\* C6 (SpecSeq): not found.  The SELECT of a lookup of a code that equals no
\* stored code ends the lookup with None and leaves the store as it is; the
\* request GET /c is answered 404.
C6_NotFound == [][C6_Step]_vars

\* GET /c was answered 404 for a code that differs from a stored code in case
\* only
C6_Witness ==
  /\ proc[1].pc = "done"
  /\ proc[1].via = "redirect"
  /\ proc[1].status = 404
  /\ proc[1].ret = None
  /\ \E r \in urls : r.code # proc[1].arg /\ Lower(r.code) = Lower(proc[1].arg)

\* while p is in the loop its transaction holds no new row
C7_NoRow ==
  \A p \in Procs : proc[p].pc \in { "ins_loop", "ins_insert" } /\ lock = p => txn[p] = urls

\* the steps of an insert_short_url call before its commit leave the
\* committed rows as they are; the call ends in RuntimeError after exactly
\* MAX_GENERATION_ATTEMPTS rounds, and after that many rounds in nothing else
C7_Step ==
  \A p \in Procs :
    /\ ( proc[p].pc \in { "ins_select", "ins_loop", "ins_insert" } /\ proc'[p] # proc[p] )
       => urls' = urls
    /\ ( proc[p].pc = "ins_loop" /\ proc'[p].pc = "done" /\ proc'[p].ret = RuntimeError )
       => /\ proc[p].attempts = MAX_GENERATION_ATTEMPTS
          /\ proc'[p].attempts = MAX_GENERATION_ATTEMPTS
    /\ ( /\ proc[p].pc = "ins_loop" /\ proc[p].attempts = MAX_GENERATION_ATTEMPTS
         /\ proc'[p] # proc[p] )
       => proc'[p].pc = "done" /\ proc'[p].ret = RuntimeError

\* C7 (Spec): exhaustion.  A call whose MAX_GENERATION_ATTEMPTS candidates
\* all collide makes exactly that many INSERT attempts, then fails with
\* RuntimeError, and has inserted no row.
C7_Exhaustion == []C7_NoRow /\ [][C7_Step]_vars

C7_Witness ==
  \E p \in Procs :
    /\ proc[p].pc = "done"
    /\ proc[p].ret = RuntimeError
    /\ proc[p].attempts = MAX_GENERATION_ATTEMPTS
    /\ Cardinality(urls) = 1

\* POST / with a url field that normalize_url rejects
RejectedPost(req) ==
  /\ req # << >>
  /\ Upper(req[1]) = POST
  /\ req[2] = << "/" >>
  /\ normalize_url(FormGet(req[3])) = << >>

C8_Step ==
  \A p \in Procs :
    ( proc'[p] # proc[p] /\ RejectedPost(proc'[p].req) )
    => /\ proc'[p].pc = "done"
       /\ proc'[p].status = 302
       /\ proc'[p].location = PathError
       /\ proc'[p].via = "page"
       /\ urls' = urls
       /\ returned' = returned

\* C8 (SpecSeq): invalid submission.  A POST / whose url field normalize_url
\* rejects is answered 302 to /url-error.php, does not call insert_short_url
\* and leaves the store as it is.
C8_InvalidSubmission == [][C8_Step]_vars

\* POST / with url=ftp://a was answered 302 to /url-error.php
C8_Witness ==
  /\ proc[1].pc = "done"
  /\ RejectedPost(proc[1].req)
  /\ FormGet(proc[1].req[3]) = << "f", "t", "p", ":", "/", "/", "a" >>
  /\ proc[1].status = 302
  /\ proc[1].location = PathError
  /\ urls # {}

\* the trimmed input is one the normalizer is to reject: empty, a scheme other
\* than http and https, no network location, or whitespace inside
ToReject(raw) ==
  LET cleaned == Strip(raw)
      parsed  == urlparse(IF urlparse(cleaned).scheme = << >>
                            THEN https_prefix \o cleaned ELSE cleaned)
  IN  \/ cleaned = << >>
      \/ parsed.scheme \notin { http, https }
      \/ parsed.netloc = << >>
      \/ \E c \in Whitespace : HasChar(cleaned, c)

\* C9 (SpecNorm): rejection.  normalize_url returns the empty string for
\* every input that, once trimmed, is empty, has a scheme other than http and
\* https, has no network location or has whitespace inside; no accepted
\* result contains whitespace.
C9_Rejection ==
  nstage # "raw" =>
    /\ ToReject(nraw) => nout = << >>
    /\ nout \notin { << >>, ValueError } => \A c \in Whitespace : ~HasChar(nout, c)

\* C10 (SpecNorm): idempotence.  For every input x normalize_url accepts,
\* normalize_url(normalize_url(x)) = normalize_url(x); an input without a
\* scheme gets https:// put before its trimmed form once.
C10_Idempotent ==
  /\ nstage = "twice" => nout2 = nout
  /\ ( /\ nstage # "raw"
       /\ nout \notin { << >>, ValueError }
       /\ urlparse(Strip(nraw)).scheme = << >> )
     => nout = https_prefix \o Strip(nraw)

\* an input with whitespace around it and no scheme was normalized twice
C10_Witness ==
  /\ nstage = "twice"
  /\ nout2 = nout
  /\ nraw # Strip(nraw)
  /\ nout = https_prefix \o Strip(nraw)

\* POST / with a url field that normalize_url accepts
AcceptedPost(req) ==
  /\ req # << >>
  /\ Upper(req[1]) = POST
  /\ req[2] = << "/" >>
  /\ normalize_url(FormGet(req[3])) \notin { << >>, ValueError }

\* the answer to an accepted POST / is the page of the code in ret: status
\* 200, the short URL <scheme>://<host>/<code>, and the store holds a record
\* of the normalized URL under that code
ShownAndStored(q) ==
  /\ q.status = 200
  /\ q.body = url_scheme \o << ":", "/", "/" >> \o HTTP_HOST \o << "/" >> \o q.ret
  /\ q.ret \in GenCodes
  /\ \E r \in urls :
       /\ r.original_url = normalize_url(FormGet(q.req[3]))
       /\ r.code = q.ret

\* C11 as stated: every POST / with an accepted url field is answered 200
\* with the short URL, and the store then holds the record shown.
C11_Original ==
  \A p \in Procs :
    ( proc[p].pc = "done" /\ AcceptedPost(proc[p].req) ) => ShownAndStored(proc[p])

\* C11 (SpecSeq): valid submission.  A POST / whose url field normalize_url
\* accepts, and whose insert_short_url call returns a code rather than
\* raising the exhaustion error, is answered 200 with the short URL
\* <scheme>://<host>/<code>, and after the request the store holds a record
\* whose original_url is the normalized URL and whose code is the one shown.
C11_ValidSubmission ==
  \A p \in Procs :
    ( proc[p].pc = "done" /\ AcceptedPost(proc[p].req) )
    => /\ proc[p].via = "post"
       /\ proc[p].ret # RuntimeError => ShownAndStored(proc[p])

\* POST / with url=a was answered with the page of a code under which
\* https://a is stored
C11_Witness ==
  /\ proc[1].pc = "done"
  /\ AcceptedPost(proc[1].req)
  /\ FormGet(proc[1].req[3]) = << "a" >>
  /\ proc[1].status = 200
  /\ \E r \in urls :
       /\ r.original_url = UrlA
       /\ << "/" >> \o r.code = From(proc[1].body, Len(proc[1].body) - CODE_LENGTH - 1)

\* a record of the store before the step is in the store after it, with its
\* id, code, original_url and created_at; it differs at most by one click
\* more, and then the step is the commit of a lookup of its code.  A record
\* that is new after the step has no clicks.  No record is lost
C12_Step ==
  /\ \A r \in urls :
       \E r2 \in urls' :
         /\ r2.id = r.id
         /\ r2.code = r.code
         /\ r2.original_url = r.original_url
         /\ r2.created_at = r.created_at
         /\ r2.clicks >= r.clicks
         /\ r2 # r =>
              /\ r2.clicks = r.clicks + 1
              /\ \E p \in Procs :
                   /\ proc[p].pc = "lk_commit"
                   /\ proc[p].via \in { "lookup", "redirect" }
                   /\ proc[p].arg = r.code
                   /\ proc'[p].pc = "done"
  /\ \A r2 \in urls' : ( \A r \in urls : r.id # r2.id ) => r2.clicks = 0
  /\ Cardinality(urls') >= Cardinality(urls)

\* C12 (Spec): record lifecycle.  Across every step of every execution a
\* stored record is never deleted, its code, original_url and created_at
\* never change, its clicks starts at 0 and never decreases; the only change
\* to an existing record is the increment of clicks by lookup_original_url,
\* and the number of records never decreases.
C12_Lifecycle == [][C12_Step]_vars

\* two records, each created with no clicks and since looked up once
C12_Witness ==
  \E r1 \in urls, r2 \in urls :
    /\ r1.id # r2.id
    /\ r1.clicks = 1
    /\ r2.clicks = 1
    /\ r1.created_at # r2.created_at

\* the characters [A-Za-z0-9]
AlphaNum == Range(ascii_lowercase) \cup Range(ascii_uppercase) \cup Range(digits)

\* six characters, each a letter or a digit
WellFormed(code) ==
  /\ Len(code) = CODE_LENGTH
  /\ CODE_LENGTH = 6
  /\ \A i \in 1..Len(code) : code[i] \in AlphaNum
  /\ Cardinality(AlphaNum) = 62

\* C13 (SpecGen): code shape.  Every code generate_code returns, and so every
\* code of a record, committed or in an open transaction, and every code
\* insert_short_url returns, has exactly CODE_LENGTH = 6 characters, each
\* from the 62 characters [A-Za-z0-9].
C13_CodeShape ==
  /\ \A r \in urls : WellFormed(r.code)
  /\ \A p \in Procs :
       /\ \A r \in txn[p] : WellFormed(r.code)
       /\ proc[p].code # << >> => WellFormed(proc[p].code)
  /\ \A x \in returned : WellFormed(x[2])

\* the store holds the code of six "9", the last character of the alphabet,
\* and the code that runs from the last upper-case letter into the digits
C13_Witness ==
  \E r1 \in urls, r2 \in urls :
    /\ r1.code = << "9", "9", "9", "9", "9", "9" >>
    /\ r2.code = << "Z", "0", "1", "2", "3", "4" >>
    /\ << r1.original_url, r1.code >> \in returned

\* the rounds of p's loop and its return.  A round that stays in the loop
\* drew a code of the table; it leaves the committed rows and the table its
\* transaction sees as they are.  A round that leaves the loop drew a free
\* code and its transaction holds one row more.  The return gives that code
\* and commits exactly that row: (code, the URL of the call, clicks 0)
C14_Step ==
  \A p \in Procs :
    /\ ( proc[p].pc = "ins_insert" /\ proc'[p].pc = "ins_loop" )
       => /\ proc[p].code \in CodesOf(Visible(p))
          /\ proc'[p].attempts = proc[p].attempts + 1
          /\ urls' = urls
          /\ txn'[p] = Visible(p)
    /\ ( proc[p].pc = "ins_insert" /\ proc'[p].pc = "ins_commit" )
       => /\ proc[p].code \notin CodesOf(Visible(p))
          /\ proc'[p].code = proc[p].code
          /\ proc'[p].attempts = proc[p].attempts + 1
          /\ urls' = urls
          /\ Visible(p) \subseteq txn'[p]
          /\ Cardinality(txn'[p]) = Cardinality(Visible(p)) + 1
    /\ ( proc[p].pc = "ins_commit" /\ proc'[p].pc = "done" )
       => /\ proc'[p].ret = proc[p].code
          /\ proc'[p].attempts = proc[p].attempts
          /\ \E row \in urls' :
               /\ row \notin urls
               /\ urls' = urls \cup { row }
               /\ row.code = proc'[p].ret
               /\ row.original_url = proc[p].arg
               /\ row.clicks = 0

\* C14 (Spec): collision retry.  When the first k candidates (0 <= k < 20)
\* of an insert_short_url call collide with stored codes and candidate k+1
\* is free, the call returns candidate k+1 and the store gains exactly one
\* row, (candidate k+1, the URL, clicks 0); the k failed attempts leave no
\* row behind and do not alter the records they collided with.
C14_CollisionRetry == [][C14_Step]_vars

\* a call has returned its third candidate, after two collisions with the
\* code of the other record, which is as it was
C14_Witness ==
  \E p \in Procs, r1 \in urls, r2 \in urls :
    /\ proc[p].pc = "done" /\ proc[p].via = "insert"
    /\ proc[p].attempts = 3
    /\ r2.code = proc[p].ret /\ r2.original_url = proc[p].arg /\ r2.clicks = 0
    /\ r1.code # r2.code /\ r1.original_url # r2.original_url
    /\ Cardinality(urls) = 2

\* C15 (SpecSeq): exhaustion at the HTTP layer.  When insert_short_url
\* fails with the exhaustion error while POST / is handled, the request is
\* answered with a server error (a 5xx status): not with the 200 page of a
\* short URL and not with the 302 redirect to /url-error.php.
C15_ServerError ==
  \A p \in Procs :
    ( proc[p].pc = "done" /\ proc[p].via = "post" /\ proc[p].ret = RuntimeError )
    => /\ proc[p].status >= 500 /\ proc[p].status <= 599
       /\ proc[p].body = << >>
       /\ proc[p].location # PathError

\* POST / with url=a, twenty candidates collided: the answer is 500 and
\* https://a is not stored
C15_Witness ==
  /\ proc[1].pc = "done"
  /\ proc[1].via = "post"
  /\ Upper(proc[1].req[1]) = POST /\ FormGet(proc[1].req[3]) = << "a" >>
  /\ proc[1].ret = RuntimeError
  /\ proc[1].attempts = MAX_GENERATION_ATTEMPTS
  /\ proc[1].status = 500
  /\ RowsOf(urls, UrlA) = {}

\* C16 (Spec): connection release.  In no reachable state does a finished
\* call of insert_short_url, lookup_original_url or count_urls still hold an
\* open connection, the write lock or an uncommitted transaction, whichever
\* way the call ended.
C16_Released ==
  \A p \in Procs :
    proc[p].pc \in { "idle", "done" }
    => /\ proc[p].conn # "open"
       /\ lock # p
       /\ txn[p] = {}

\* the INSERT of a round of p's loop.  When another connection holds the write
\* lock it fails with the lock fault of the store: the call ends at once with
\* that fault, after this one attempt more, and neither the committed rows
\* nor any transaction change.  No INSERT ends the call with the exhaustion
\* error.  With the lock free and a candidate that is not a stored code the
\* INSERT fails on no other constraint: the URL is a string, the time is set
C17_Step ==
  \A p \in Procs :
    ( proc[p].pc = "ins_insert" /\ proc'[p] # proc[p] )
    => /\ proc'[p].ret # RuntimeError
       /\ lock \notin { 0, p }
            => /\ proc'[p].pc = "done"
               /\ proc'[p].ret = OperationalError
               /\ proc'[p].attempts = proc[p].attempts + 1
               /\ urls' = urls
               /\ txn' = txn
               /\ lock' = lock
       /\ ( lock \in { 0, p } /\ proc[p].code \notin CodesOf(Visible(p)) )
            => proc'[p].pc = "ins_commit"

\* C17 (Spec): storage faults.  A failure of the INSERT of insert_short_url
\* that is not a uniqueness conflict on code (the lock failure; no other
\* constraint can fail for a string argument) is not retried by the loop: the
\* call ends with that fault, not with the exhaustion error, and inserts no
\* row.
C17_StorageFault == [][C17_Step]_vars

\* a call ended with the lock fault at its first INSERT, while the other
\* caller held the write lock; its URL is not stored
C17_Witness ==
  \E p \in Procs, q \in Procs :
    /\ proc[p].pc = "done" /\ proc[p].via = "insert"
    /\ proc[p].ret = OperationalError
    /\ proc[p].attempts = 1
    /\ lock = q /\ q # p
    /\ RowsOf(urls, proc[p].arg) = {}
    /\ RowsOf(txn[q], proc[p].arg) = {}

\* a non-empty URL that normalize_url returns as it is: its scheme is http
\* or https and its host is not empty
Normalized(u) ==
  /\ u # << >>
  /\ normalize_url(u) = u
  /\ urlparse(u).scheme \in { http, https }
  /\ urlparse(u).netloc # << >>

C18_Stored == \A r \in urls : Normalized(r.original_url)

\* the record a POST / commits has a normalized URL; a GET /<code> that has
\* found such a record and counted the click is answered 302 to its URL; a
\* GET /<code> answered 404 has counted no click
C18_Step ==
  \A p \in Procs :
    /\ ( proc[p].pc = "ins_commit" /\ proc[p].via = "post" /\ proc'[p].pc = "done" )
       => /\ urls' # urls
          /\ \A r \in urls' \ urls :
               /\ Normalized(r.original_url)
               /\ r.original_url = normalize_url(FormGet(proc[p].req[3]))
    /\ ( /\ proc[p].pc = "lk_commit" /\ proc[p].via = "redirect" /\ proc'[p].pc = "done"
         /\ Normalized(proc[p].found) )
       => /\ proc'[p].status = 302
          /\ proc'[p].location = proc[p].found
          /\ \E r \in urls' : r.original_url = proc'[p].location /\ r.clicks > 0
    /\ ( proc[p].via = "redirect" /\ proc'[p].pc = "done" /\ proc'[p].status = 404 )
       => urls' = urls

\* C18 (SpecSeq): stored URLs are normalized.  In every reachable state every
\* record created through POST / has a non-empty original_url u with
\* normalize_url(u) = u (scheme http or https, non-empty host), so a GET
\* /<code> that hits such a record is answered with the 302 redirect and
\* never with the 404 page after its click has been counted.
C18_StoredNormalized == []C18_Stored /\ [][C18_Step]_vars

\* GET /<code> hit the record of http://b, the URL that POST / with
\* url=" http://b" stores, counted the click and was answered 302 to it
C18_Witness ==
  /\ proc[1].pc = "done"
  /\ proc[1].via = "redirect"
  /\ proc[1].status = 302
  /\ proc[1].location = UrlB
  /\ \E r \in urls :
       /\ r.original_url = UrlB
       /\ << "/" >> \o r.code = proc[1].req[2]
       /\ r.clicks = 1
  /\ RowsOf(urls, UrlA) = {}

====
